---- MODULE Spec2Model ----
(***************************************************************************)
(* Model of the pixel-art puzzle game.                                     *)
(*                                                                         *)
(* Overlay engine (lib/gameLogic): canOverlay, overlayGrids, gridsEqual,   *)
(* validateSolution and the bundled easyPuzzle.  The functions are pure;   *)
(* they are written as the loops of the source, and the specifications     *)
(* draw their arguments in Init and apply them in the actions.             *)
(*                                                                         *)
(* A Grid is Color[][]; it is modelled as a function [0..2 -> [0..2 ->     *)
(* Color]] so that cell (i, j) of the source is grid[i][j] here.  A Grid[] *)
(* is a TLA+ sequence: element k of the source array is element k+1.       *)
(*                                                                         *)
(* Puzzle selection (lib/supabase): getUnplayedPuzzleByDifficulty and      *)
(* addPuzzleToRecentQueue against the users.recent_puzzle_ids column, and  *)
(* the guest list kept by Home (app/page).  A JavaScript value is a record *)
(* [type, text], so that String(7) and "7" are different values with the   *)
(* same text and String() and trim() are real conversions.                 *)
(*                                                                         *)
(* The application (app/page, components/Game): Home, DifficultySelection  *)
(* and Game as records of their useState values.  SpecPlay runs sessions   *)
(* of both kinds with their selections and record calls, SpecGuest runs a  *)
(* guest's sessions with the Game view played, SpecServe a player who      *)
(* keeps requesting puzzles.                                               *)
(***************************************************************************)
EXTENDS Integers, Sequences, FiniteSets, TLC

VARIABLES
  selected,   \* the Grid[] argument (selectedGrids)
  target,     \* the Grid argument (target)
  call,       \* name of the function applied last, "none" before any call
  ret,        \* the value that call returned
  recent_puzzle_ids,   \* users.recent_puzzle_ids of the player, in the store
  guestPlayedPuzzles,  \* Home state: the guest's played list
  userId,              \* argument userId: the player's id, or null for a guest
  difficulty,          \* argument difficulty of the selection
  puzzleId,            \* argument puzzleId of the record operation
  dbRead,              \* outcome of the call's recent_puzzle_ids select
  dbWrite,             \* outcome of the call's recent_puzzle_ids update
  ops,                 \* number of record operations performed
  session,             \* whether supabase.auth holds a session
  home,                \* Home state: isAuthenticated, isGuest, showDifficulty, showModal
  diff,                \* DifficultySelection state
  game,                \* Game state, its pending timeouts and its record calls
  pendingSelect,       \* the handleDifficultySelect call in flight
  adds,                \* the addPuzzleToRecentQueue calls in flight
  history,             \* the ids served to the player so far, and whether one was served twice
  inactivity,          \* Home's timers: the inactivity timeout, its throttle, the checkUser interval
  idle                 \* minutes since the user's last activity event

overlayVars == <<selected, target>>

ledgerVars == <<recent_puzzle_ids, guestPlayedPuzzles>>

argVars == <<userId, difficulty, puzzleId, dbRead, dbWrite, ops>>

appVars == <<session, home, diff, game, pendingSelect, adds, history, inactivity, idle>>

vars == <<selected, target, call, ret, recent_puzzle_ids, guestPlayedPuzzles,
          userId, difficulty, puzzleId, dbRead, dbWrite, ops,
          session, home, diff, game, pendingSelect, adds, history, inactivity, idle>>

-----------------------------------------------------------------------------
(* Grid model *)

Color == {"R", "B", "Y", "X"}

GridSize == 3

Idx == 0 .. (GridSize - 1)

Cells == Idx \X Idx

Grid == [Idx -> [Idx -> Color]]

\* rows written as in the source literal, <<<<..>>, <<..>>, <<..>>>>
MkGrid(rows) == [i \in Idx |-> [j \in Idx |-> rows[i + 1][j + 1]]]

EmptyGrid == MkGrid(<< <<"X", "X", "X">>,
                       <<"X", "X", "X">>,
                       <<"X", "X", "X">> >>)

-----------------------------------------------------------------------------
(* canOverlay: the two nested loops with the early return *)

RECURSIVE canOverlayFrom(_, _, _, _)
canOverlayFrom(grid1, grid2, i, j) ==
  IF i >= GridSize THEN TRUE
  ELSE IF j >= GridSize THEN canOverlayFrom(grid1, grid2, i + 1, 0)
  ELSE LET cell1 == grid1[i][j]
           cell2 == grid2[i][j]
       IN  IF cell1 # "X" /\ cell2 # "X"
           THEN FALSE
           ELSE canOverlayFrom(grid1, grid2, i, j + 1)

\* canOverlay with || in place of && in the conflict test
canOverlayEitherColored(grid1, grid2) ==
  \A i, j \in Idx : ~(grid1[i][j] # "X" \/ grid2[i][j] # "X")

\* canOverlay with cell2 read from grid1
canOverlayCellFromGrid1(grid1, grid2) ==
  \A i, j \in Idx : ~(grid1[i][j] # "X" /\ grid1[i][j] # "X")

\* canOverlay that reports a conflict only where the two colors differ
canOverlaySameColorAllowed(grid1, grid2) ==
  \A i, j \in Idx : ~(grid1[i][j] # "X" /\ grid2[i][j] # "X" /\ grid1[i][j] # grid2[i][j])

\* canOverlay with the row loop starting at 1
canOverlaySkipFirstRow(grid1, grid2) == canOverlayFrom(grid1, grid2, 1, 0)

canOverlay(grid1, grid2) == canOverlayFrom(grid1, grid2, 0, 0)

-----------------------------------------------------------------------------
(* overlayGrids: result starts all 'X'; for each grid, in order, every    *)
(* non-'X' cell overwrites result[i][j]                                    *)

RECURSIVE overlayLoop(_, _, _, _, _)
overlayLoop(grids, result, k, i, j) ==
  IF k > Len(grids) THEN result
  ELSE IF i >= GridSize THEN overlayLoop(grids, result, k + 1, 0, 0)
  ELSE IF j >= GridSize THEN overlayLoop(grids, result, k, i + 1, 0)
  ELSE IF grids[k][i][j] # "X"
       THEN overlayLoop(grids, [result EXCEPT ![i][j] = grids[k][i][j]], k, i, j + 1)
       ELSE overlayLoop(grids, result, k, i, j + 1)

\* overlayGrids without the non-'X' test: every grid overwrites every cell
overlayGridsNoGuard(grids) ==
  IF Len(grids) = 0 THEN EmptyGrid ELSE grids[Len(grids)]

\* overlayGrids that writes a cell only while result[i][j] is still 'X'
overlayGridsFirstWins(grids) ==
  [i \in Idx |-> [j \in Idx |->
     LET W == {k \in DOMAIN grids : grids[k][i][j] # "X"}
     IN  IF W = {} THEN "X"
         ELSE grids[CHOOSE k \in W : \A l \in W : k <= l][i][j]]]

overlayGrids(grids) == overlayLoop(grids, EmptyGrid, 1, 0, 0)

(* overlayGrids with its arrays as objects.  The memory of a call is a     *)
(* function from object numbers to grids: object 0 is the array literal    *)
(* the call builds, object k is grids[k-1].  result names the object that  *)
(* the assignment result[i][j] = grid[i][j] writes.                        *)

Memory(grids) == [n \in 0 .. Len(grids) |-> IF n = 0 THEN EmptyGrid ELSE grids[n]]

RECURSIVE overlayWrites(_, _, _, _, _)
overlayWrites(mem, result, k, i, j) ==
  IF k > Cardinality(DOMAIN mem) - 1 THEN mem
  ELSE IF i >= GridSize THEN overlayWrites(mem, result, k + 1, 0, 0)
  ELSE IF j >= GridSize THEN overlayWrites(mem, result, k, i + 1, 0)
  ELSE IF mem[k][i][j] # "X"
       THEN overlayWrites([mem EXCEPT ![result][i][j] = mem[k][i][j]], result, k, i, j + 1)
       ELSE overlayWrites(mem, result, k, i, j + 1)

\* overlayGrids with const result = grids[0] in place of the array literal
overlayGridsMemoryAliased(grids) ==
  overlayWrites(Memory(grids), IF Len(grids) = 0 THEN 0 ELSE 1, 1, 0, 0)

\* the memory when overlayGrids(grids) returns
overlayGridsMemory(grids) == overlayWrites(Memory(grids), 0, 1, 0, 0)

\* the argument array when overlayGrids(grids) returns
gridsAfterOverlay(grids) == [k \in 1 .. Len(grids) |-> overlayGridsMemory(grids)[k]]

-----------------------------------------------------------------------------
(* gridsEqual: cell by cell, early return on the first difference *)

RECURSIVE gridsEqualFrom(_, _, _, _)
gridsEqualFrom(grid1, grid2, i, j) ==
  IF i >= GridSize THEN TRUE
  ELSE IF j >= GridSize THEN gridsEqualFrom(grid1, grid2, i + 1, 0)
  ELSE IF grid1[i][j] # grid2[i][j]
       THEN FALSE
       ELSE gridsEqualFrom(grid1, grid2, i, j + 1)

\* gridsEqual comparing grid1[i][j] with grid2[j][i]
gridsEqualTransposed(grid1, grid2) ==
  \A i, j \in Idx : grid1[i][j] = grid2[j][i]

\* gridsEqual returning after the first row
gridsEqualFirstRowOnly(grid1, grid2) ==
  \A j \in Idx : grid1[0][j] = grid2[0][j]

gridsEqual(grid1, grid2) == gridsEqualFrom(grid1, grid2, 0, 0)

-----------------------------------------------------------------------------
(* validateSolution *)

SolutionSize == 3

\* the pair loops: i from the first element, j from i + 1
\* the pair loops with j starting at i + 2
allPairsOverlaySkipNeighbour(grids, i, j) ==
  \A m, n \in DOMAIN grids : (m >= i /\ n >= m + 2) => canOverlay(grids[m], grids[n])

RECURSIVE allPairsOverlay(_, _, _)
allPairsOverlay(grids, i, j) ==
  IF i > Len(grids) THEN TRUE
  ELSE IF j > Len(grids) THEN allPairsOverlay(grids, i + 1, i + 2)
  ELSE IF ~canOverlay(grids[i], grids[j])
       THEN FALSE
       ELSE allPairsOverlay(grids, i, j + 1)

\* validateSolution with the length test written as length < 3
validateSolutionAtLeastThree(selectedGrids, tgt) ==
  IF Len(selectedGrids) < SolutionSize THEN FALSE
  ELSE IF ~allPairsOverlay(selectedGrids, 1, 2) THEN FALSE
  ELSE gridsEqual(overlayGrids(selectedGrids), tgt)

\* validateSolution without the conflict loops
validateSolutionNoConflictCheck(selectedGrids, tgt) ==
  IF Len(selectedGrids) # SolutionSize THEN FALSE
  ELSE gridsEqual(overlayGrids(selectedGrids), tgt)

validateSolution(selectedGrids, tgt) ==
  IF Len(selectedGrids) # SolutionSize THEN FALSE
  ELSE IF ~allPairsOverlay(selectedGrids, 1, 2) THEN FALSE
  ELSE LET result == overlayGrids(selectedGrids)
       IN  gridsEqual(result, tgt)

-----------------------------------------------------------------------------
(* easyPuzzle *)

easyTarget == MkGrid(<< <<"R", "B", "X">>,
                        <<"R", "B", "Y">>,
                        <<"X", "X", "Y">> >>)

\* availableGrids[n] is grid n of the source, n in 0..8
easyAvailableGrids ==
  [n \in 0 .. 8 |->
     CASE n = 0 -> MkGrid(<< <<"R", "X", "X">>, <<"R", "X", "X">>, <<"X", "X", "X">> >>)
       [] n = 1 -> MkGrid(<< <<"X", "B", "X">>, <<"X", "B", "X">>, <<"X", "X", "X">> >>)
       [] n = 2 -> MkGrid(<< <<"X", "X", "X">>, <<"X", "X", "Y">>, <<"X", "X", "Y">> >>)
       [] n = 3 -> MkGrid(<< <<"R", "R", "X">>, <<"X", "X", "X">>, <<"X", "X", "X">> >>)
       [] n = 4 -> MkGrid(<< <<"X", "X", "X">>, <<"B", "B", "X">>, <<"X", "X", "X">> >>)
       [] n = 5 -> MkGrid(<< <<"X", "X", "Y">>, <<"X", "X", "Y">>, <<"X", "X", "X">> >>)
       [] n = 6 -> MkGrid(<< <<"R", "X", "X">>, <<"X", "B", "X">>, <<"X", "X", "Y">> >>)
       [] n = 7 -> MkGrid(<< <<"X", "X", "X">>, <<"X", "X", "X">>, <<"R", "B", "Y">> >>)
       [] n = 8 -> MkGrid(<< <<"X", "B", "Y">>, <<"X", "X", "X">>, <<"X", "X", "X">> >>)]

easySolution == <<0, 1, 2>>

easyPuzzle == [target |-> easyTarget,
               availableGrids |-> easyAvailableGrids,
               solution |-> easySolution]

-----------------------------------------------------------------------------
(* JavaScript values: a type and the text String() gives *)

Str(t) == [type |-> "string", text |-> t]

Num(t) == [type |-> "number", text |-> t]

Null == [type |-> "null", text |-> "null"]

\* !v for the values a userId takes
Falsy(v) == v = Null \/ v = Str("")

\* String(v)
String(v) == Str(v.text)

QueueCap == 100

GuestCap == 100

\* the texts of the ids in use: "1", "2", ...
IdTexts == {ToString(n) : n \in 1 .. (QueueCap + 3)}

Pad(t) == " " \o t \o " "

\* s.trim(): a padded id text loses its blanks, any other text has none
trim(v) ==
  IF \E u \in IdTexts : v.text = Pad(u)
  THEN Str(CHOOSE u \in IdTexts : v.text = Pad(u))
  ELSE Str(v.text)

\* list.includes(v)
Includes(list, v) == \E k \in DOMAIN list : list[k] = v

\* list.map(id => id)
MapStringIdentity(list) == list

\* list.map(id => String(id))
MapString(list) == [k \in DOMAIN list |-> String(list[k])]

\* list.slice(0, n) in place of list.slice(-n)
SliceFirst(list, n) ==
  IF Len(list) <= n THEN list ELSE SubSeq(list, 1, n)

\* list.slice(-n)
SliceLast(list, n) ==
  IF Len(list) <= n THEN list ELSE SubSeq(list, Len(list) - n + 1, Len(list))

\* outcome of a call: a returned value, a returned null, or an exception
Result(kind, value) == [kind |-> kind, value |-> value]

Returned(v) == Result("value", v)

ReturnedNull == Result("null", Null)

Thrown == Result("throw", Null)

-----------------------------------------------------------------------------
(* The store: the puzzles table and the users.recent_puzzle_ids column *)

\* number of easy puzzles in the puzzles table
NumEasy == 2

Difficulties == {"easy", "medium", "hard"}

PuzzleRow(n, d) == [id |-> Str(ToString(n)), difficulty_type |-> d]

\* rows of the puzzles table: NumEasy easy puzzles, one medium, no hard one
puzzles ==
  [n \in 1 .. (NumEasy + 1) |->
     IF n <= NumEasy THEN PuzzleRow(n, "easy") ELSE PuzzleRow(n, "medium")]

\* getPuzzlesByDifficulty, when the select succeeds
getPuzzlesByDifficulty(d) == SelectSeq(puzzles, LAMBDA p : p.difficulty_type = d)

\* a recent_puzzle_ids column: null, or an array of values
DbNull == [isArray |-> FALSE, items |-> << >>]

DbArray(list) == [isArray |-> TRUE, items |-> list]

\* the fetched column used as it is, without map(id => String(id))
recentFromColumnUnconverted(column) ==
  IF column.isArray THEN column.items ELSE << >>

\* the string[] both functions build from the fetched column
recentFromColumn(column) ==
  IF column.isArray THEN MapString(column.items) ELSE << >>

-----------------------------------------------------------------------------
(* addPuzzleToRecentQueue and handleGuestPuzzlePlayed: the list each writes *)

\* addPuzzleToRecentQueue without the filter that removes the id
recentAfterAddNoFilter(column, pid) ==
  LET pushed == Append(recentFromColumn(column), String(pid))
  IN  IF Len(pushed) > QueueCap THEN SliceLast(pushed, QueueCap) ELSE pushed

\* filter out puzzleIdStr, push it, keep the last 100
recentAfterAdd(column, pid) ==
  LET recentPuzzles == recentFromColumn(column)
      puzzleIdStr   == String(pid)
      filtered      == SelectSeq(recentPuzzles, LAMBDA id : String(id) # puzzleIdStr)
      pushed        == Append(filtered, puzzleIdStr)
  IN  IF Len(pushed) > QueueCap THEN SliceLast(pushed, QueueCap) ELSE pushed

\* the updater without the prev.includes test
guestAfterPlayedAlwaysAppends(prev, pid) ==
  LET updated == Append(prev, trim(String(pid)))
  IN  IF Len(updated) > GuestCap THEN SliceLast(updated, GuestCap) ELSE updated

\* the updater passed to setGuestPlayedPuzzles
guestAfterPlayed(prev, pid) ==
  LET cleanPuzzleId == trim(String(pid))
  IN  IF Includes(prev, cleanPuzzleId)
      THEN prev
      ELSE LET updated == Append(prev, cleanPuzzleId)
           IN  IF Len(updated) > GuestCap THEN SliceLast(updated, GuestCap) ELSE updated

-----------------------------------------------------------------------------
(* getUnplayedPuzzleByDifficulty: the outcomes the call can have, given    *)
(* the outcome of the puzzles select (fetch) and of the ledger select      *)
(* (read); Math.random picks any index of the list                         *)

\* a random index that is always 0
RandomOfFirstOnly(list) == {list[1]}

RandomOf(list) == {list[randomIndex + 1] : randomIndex \in 0 .. (Len(list) - 1)}

\* the ledger select failed and the error is thrown
readErrorFallbackThrows(allPuzzles) == {Thrown}

\* the ledger select failed: a random puzzle of the whole difficulty
readErrorFallback(allPuzzles) == {Returned(p) : p \in RandomOf(allPuzzles)}

\* the filter on the guest's list left out
guestUnplayedNoFilter(allPuzzles, guestList) == allPuzzles

guestUnplayed(allPuzzles, guestList) ==
  LET guestRecentIds == [k \in DOMAIN guestList |-> trim(String(guestList[k]))]
  IN  SelectSeq(allPuzzles, LAMBDA p : ~Includes(guestRecentIds, trim(String(p.id))))

\* the filter on the ledger left out
userUnplayedNoFilter(allPuzzles, column) == allPuzzles

userUnplayed(allPuzzles, column) ==
  LET recentPuzzleIds == recentFromColumn(column)
  IN  SelectSeq(allPuzzles, LAMBDA p : ~Includes(recentPuzzleIds, String(p.id)))

\* whether the call gets as far as the ledger select
reachesLedgerRead(uid, d, fetch) ==
  fetch = "ok" /\ Len(getPuzzlesByDifficulty(d)) # 0 /\ ~Falsy(uid)

getUnplayedPuzzleByDifficulty(uid, d, guestList, column, fetch, read) ==
  IF fetch = "error" THEN {Thrown}
  ELSE LET allPuzzles == getPuzzlesByDifficulty(d)
       IN  IF Len(allPuzzles) = 0 THEN {ReturnedNull}
           ELSE IF Falsy(uid)
           THEN LET unplayedPuzzles == guestUnplayed(allPuzzles, guestList)
                IN  IF Len(unplayedPuzzles) = 0
                    THEN {ReturnedNull}
                    ELSE {Returned(p) : p \in RandomOf(unplayedPuzzles)}
           ELSE IF read = "error"
           THEN readErrorFallback(allPuzzles)
           ELSE LET unplayedPuzzles == userUnplayed(allPuzzles, column)
                IN  IF Len(unplayedPuzzles) = 0
                    THEN {ReturnedNull}
                    ELSE {Returned(p) : p \in RandomOf(unplayedPuzzles)}

-----------------------------------------------------------------------------
(* The application (app/page, components/Game): the state of Home, of      *)
(* DifficultySelection and of Game as records of their useState values     *)

\* Home: useState initial values
HomeInitial ==
  [isAuthenticated |-> FALSE, isGuest |-> FALSE, showDifficulty |-> FALSE, showModal |-> FALSE]

\* currentPuzzle when it is null
NoPuzzle == [id |-> Null, difficulty_type |-> "none"]

\* DifficultySelection: useState initial values
DiffInitial ==
  [selectedDifficulty |-> "none", currentPuzzle |-> NoPuzzle, gameStarted |-> FALSE,
   loading |-> FALSE, error |-> FALSE, noPuzzlesLeft |-> FALSE]

\* Game: useState initial values; timers are the timeouts still to fire, in
\* firing order; trackCalls counts the runs of the trackPuzzle effect
GameInitial ==
  [selectedIndices |-> << >>, showResult |-> FALSE, isCorrect |-> FALSE,
   isAnimating |-> FALSE, animationPhase |-> 0, showIncorrectShake |-> FALSE,
   timers |-> << >>, trackCalls |-> 0, caught |-> "none"]

\* no handleDifficultySelect call in flight
NoSelect ==
  [active |-> FALSE, difficulty |-> "none", userId |-> Null, guestPlayedPuzzles |-> << >>,
   fromPuzzle |-> Null, result |-> [kind |-> "none", value |-> Null]]

\* number of grids in a stored puzzle's available_grids
NumGrids == 4

\* gamePuzzle: every stored puzzle carries the bundled target and the first
\* NumGrids bundled grids (the three of the solution first)
gamePuzzle(puzzle) ==
  [target |-> easyPuzzle.target,
   availableGrids |-> [n \in 0 .. (NumGrids - 1) |-> easyPuzzle.availableGrids[n]],
   solution |-> easyPuzzle.solution]

\* DifficultySelection renders the "no puzzles left" screen
NoPuzzlesScreen == home.showDifficulty /\ diff.gameStarted /\ diff.noPuzzlesLeft

\* DifficultySelection renders <Game>
GameMounted ==
  /\ home.showDifficulty
  /\ ~(diff.gameStarted /\ diff.noPuzzlesLeft)
  /\ diff.gameStarted
  /\ diff.selectedDifficulty # "none"
  /\ diff.currentPuzzle # NoPuzzle

\* DifficultySelection renders the list of difficulties
ListScreen == home.showDifficulty /\ ~NoPuzzlesScreen /\ ~GameMounted

\* the success modal of Game is rendered
SuccessModal == GameMounted /\ game.showResult /\ game.isCorrect /\ game.animationPhase = 6

-----------------------------------------------------------------------------
(* Arguments the specifications draw from *)

\* longest Grid[] passed to a function
MaxSel == 4

\* cells and colors the drawn grids may use
InkCells == {<<0, 0>>, <<1, 1>>, <<2, 2>>}

InkColors == {"R", "B"}

\* grids whose colored cells all lie in InkCells and use InkColors
InkGrids ==
  { [i \in Idx |-> [j \in Idx |-> IF <<i, j>> \in InkCells THEN f[<<i, j>>] ELSE "X"]] :
      f \in [InkCells -> InkColors \cup {"X"}] }

InkCount(g) == Cardinality({c \in Cells : g[c[1]][c[2]] # "X"})

\* the grids a selection is made of: at most one colored cell each
PoolGrids == {g \in InkGrids : InkCount(g) <= 1}

SeqsUpTo(S, n) == UNION {[1 .. m -> S] : m \in 0 .. n}

\* sequences of pairwise distinct indices into easyPuzzle.availableGrids
DistinctIndexSeqs ==
  {s \in SeqsUpTo(DOMAIN easyPuzzle.availableGrids, MaxSel) :
      \A a, b \in DOMAIN s : a # b => s[a] # s[b]}

GridsAt(indices) == [k \in DOMAIN indices |-> easyPuzzle.availableGrids[indices[k]]]

\* the player of an authenticated session
User1 == Str("u1")

\* longest ledger handed to a selection
MaxLedgerLen == 3

\* the values a stored id of puzzle n may have: the string, or the number
RawIds == {Str(ToString(n)) : n \in DOMAIN puzzles} \cup {Num(ToString(n)) : n \in DOMAIN puzzles}

StringIds == {Str(ToString(n)) : n \in DOMAIN puzzles}

\* most record operations in one behaviour
MaxOps == 3

\* the ledger "from", ..., "from + len - 1", oldest first
Run(from, len) == [k \in 1 .. len |-> Str(ToString(from + k - 1))]

\* the same ledger as the store returns it when the ids are kept as numbers
NumRun(from, len) == [k \in 1 .. len |-> Num(ToString(from + k - 1))]

\* lengths of the ledgers the record operations start from
StartLens == {0, 1, 2, QueueCap - 1, QueueCap}

\* ids recorded: the head, second, a middle and the tail of a full ledger,
\* and two ids no start ledger holds
RecordIds == {Str(ToString(n)) : n \in {1, 2, 50, QueueCap, QueueCap + 1, QueueCap + 2}}

-----------------------------------------------------------------------------
(* Specifications *)

\* values of the variables a specification does not use
OverlayIdle == selected = << >> /\ target = "none"

LedgerIdle == recent_puzzle_ids = DbNull /\ guestPlayedPuzzles = << >>

ArgsIdle ==
  /\ userId = Null
  /\ difficulty = "none"
  /\ puzzleId = Null
  /\ dbRead = "none"
  /\ dbWrite = "none"
  /\ ops = 0

\* nothing served yet
NoHistory == [served |-> {}, repeated |-> FALSE]

\* no timer set
NoTimers == [timeoutRef |-> -1, throttleTimeout |-> FALSE, interval |-> -1]

TimersIdle ==
  /\ inactivity = NoTimers
  /\ idle = 0

AppIdle ==
  /\ TimersIdle
  /\ session = FALSE
  /\ home = HomeInitial
  /\ diff = DiffInitial
  /\ game = GameInitial
  /\ pendingSelect = NoSelect
  /\ adds = << >>
  /\ history = NoHistory

\* every Grid[] of up to MaxSel pool grids; the target comes with the call
Init ==
  /\ selected \in SeqsUpTo(PoolGrids, MaxSel)
  /\ target = "none"
  /\ call = "none"
  /\ ret = "none"
  /\ LedgerIdle
  /\ ArgsIdle
  /\ AppIdle

\* every selection of distinct grids of the bundled puzzle
InitEasy ==
  /\ selected \in {GridsAt(s) : s \in DistinctIndexSeqs}
  /\ target = "none"
  /\ call = "none"
  /\ ret = "none"
  /\ LedgerIdle
  /\ ArgsIdle
  /\ AppIdle

CallCanOverlay ==
  /\ call = "none"
  /\ Len(selected) >= 2
  /\ call' = "canOverlay"
  /\ ret' = canOverlay(selected[1], selected[2])
  /\ UNCHANGED <<selected, target, ledgerVars, argVars, appVars>>

CallOverlayGrids ==
  /\ call = "none"
  /\ call' = "overlayGrids"
  /\ ret' = overlayGrids(selected)
  /\ selected' = gridsAfterOverlay(selected)
  /\ UNCHANGED <<target, ledgerVars, argVars, appVars>>

\* gridsEqual(selected[0], t) for a target t of Targets
CallGridsEqual(Targets) ==
  /\ call = "none"
  /\ Len(selected) >= 1
  /\ \E t \in Targets :
       /\ target' = t
       /\ call' = "gridsEqual"
       /\ ret' = gridsEqual(selected[1], t)
  /\ UNCHANGED <<selected, ledgerVars, argVars, appVars>>

\* the argument array when validateSolution returns: overlayGrids is reached
\* with three grids that overlay pairwise; nothing else assigns to an array
selectedAfterValidate(selectedGrids) ==
  IF Len(selectedGrids) = SolutionSize /\ allPairsOverlay(selectedGrids, 1, 2)
  THEN gridsAfterOverlay(selectedGrids)
  ELSE selectedGrids

\* validateSolution(selected, t) for a target t of Targets
CallValidateSolution(Targets) ==
  /\ call = "none"
  /\ \E t \in Targets :
       /\ target' = t
       /\ call' = "validateSolution"
       /\ ret' = validateSolution(selected, t)
  /\ selected' = selectedAfterValidate(selected)
  /\ UNCHANGED <<ledgerVars, argVars, appVars>>

Next ==
  \/ CallCanOverlay
  \/ CallOverlayGrids
  \/ CallGridsEqual(InkGrids)
  \/ CallValidateSolution(InkGrids)

NextEasy ==
  \/ CallCanOverlay
  \/ CallOverlayGrids
  \/ CallGridsEqual({easyPuzzle.target})
  \/ CallValidateSolution({easyPuzzle.target})

Spec == Init /\ [][Next]_vars

SpecEasy == InitEasy /\ [][NextEasy]_vars

-----------------------------------------------------------------------------
(* Selection: one getUnplayedPuzzleByDifficulty call by a guest holding any *)
(* list, or by a player whose stored column holds any ledger                *)

InitSelect ==
  /\ OverlayIdle
  /\ call = "none"
  /\ ret = Result("none", Null)
  /\ userId \in {Null, User1}
  /\ IF Falsy(userId)
     THEN /\ guestPlayedPuzzles \in SeqsUpTo(StringIds, MaxLedgerLen)
          /\ recent_puzzle_ids = DbNull
     ELSE /\ guestPlayedPuzzles = << >>
          /\ recent_puzzle_ids \in {DbNull} \cup {DbArray(l) : l \in SeqsUpTo(RawIds, MaxLedgerLen)}
  /\ difficulty = "none"
  /\ puzzleId = Null
  /\ dbRead = "none"
  /\ dbWrite = "none"
  /\ ops = 0
  /\ AppIdle

CallGetUnplayedPuzzleByDifficulty ==
  /\ call = "none"
  /\ \E d \in Difficulties, fetch \in {"ok", "error"}, read \in {"ok", "error"} :
       /\ difficulty' = d
       /\ dbRead' = IF reachesLedgerRead(userId, d, fetch) THEN read ELSE "none"
       /\ \E r \in getUnplayedPuzzleByDifficulty(userId, d, guestPlayedPuzzles,
                                                  recent_puzzle_ids, fetch, read) :
            ret' = r
  /\ call' = "getUnplayedPuzzleByDifficulty"
  /\ UNCHANGED <<overlayVars, ledgerVars, userId, puzzleId, dbWrite, ops, appVars>>

NextSelect == CallGetUnplayedPuzzleByDifficulty

SpecSelect == InitSelect /\ [][NextSelect]_vars

-----------------------------------------------------------------------------
(* Ledger: up to MaxOps record operations, by a player on the stored column *)
(* (addPuzzleToRecentQueue) or by a guest on the Home list                  *)
(* (handleGuestPuzzlePlayed), from ledgers of the lengths StartLens         *)

InitLedger ==
  /\ OverlayIdle
  /\ call = "none"
  /\ ret = Result("none", Null)
  /\ userId \in {Null, User1}
  /\ IF Falsy(userId)
     THEN /\ guestPlayedPuzzles \in {Run(1, len) : len \in StartLens}
          /\ recent_puzzle_ids = DbNull
     ELSE /\ guestPlayedPuzzles = << >>
          /\ recent_puzzle_ids \in {DbNull} \cup {DbArray(Run(1, len)) : len \in StartLens}
                                             \cup {DbArray(NumRun(1, len)) : len \in {1, 2}}
  /\ difficulty = "none"
  /\ puzzleId = Null
  /\ dbRead = "none"
  /\ dbWrite = "none"
  /\ ops = 0
  /\ AppIdle

\* the select fails: the call throws before the update
AddReadFails(pid) ==
  /\ dbRead' = "error"
  /\ dbWrite' = "none"
  /\ ret' = Thrown
  /\ UNCHANGED recent_puzzle_ids

\* the select succeeds and the update fails: the call throws
AddWriteFails(pid) ==
  /\ dbRead' = "ok"
  /\ dbWrite' = "error"
  /\ ret' = Thrown
  /\ UNCHANGED recent_puzzle_ids

\* both succeed: the new list is stored and returned
AddSucceeds(pid) ==
  /\ dbRead' = "ok"
  /\ dbWrite' = "ok"
  /\ recent_puzzle_ids' = DbArray(recentAfterAdd(recent_puzzle_ids, pid))
  /\ ret' = Returned(recentAfterAdd(recent_puzzle_ids, pid))

CallAddPuzzleToRecentQueue ==
  /\ ops < MaxOps
  /\ ~Falsy(userId)
  /\ \E pid \in RecordIds :
       /\ puzzleId' = pid
       /\ \/ AddReadFails(pid)
          \/ AddWriteFails(pid)
          \/ AddSucceeds(pid)
  /\ call' = "addPuzzleToRecentQueue"
  /\ ops' = ops + 1
  /\ UNCHANGED <<overlayVars, guestPlayedPuzzles, userId, difficulty, appVars>>

CallHandleGuestPuzzlePlayed ==
  /\ ops < MaxOps
  /\ Falsy(userId)
  /\ \E pid \in RecordIds :
       /\ puzzleId' = pid
       /\ guestPlayedPuzzles' = guestAfterPlayed(guestPlayedPuzzles, pid)
  /\ call' = "handleGuestPuzzlePlayed"
  /\ ret' = Result("void", Null)
  /\ ops' = ops + 1
  /\ UNCHANGED <<overlayVars, recent_puzzle_ids, userId, difficulty, dbRead, dbWrite, appVars>>

NextLedger ==
  \/ CallAddPuzzleToRecentQueue
  \/ CallHandleGuestPuzzlePlayed

SpecLedger == InitLedger /\ [][NextLedger]_vars

-----------------------------------------------------------------------------
(* Stored: a player whose stored column holds the ids as the store returns  *)
(* them, strings or numbers; a selection, or up to MaxOps record operations *)

\* longest stored column
MaxStoredLen == 2

InitStored ==
  /\ OverlayIdle
  /\ call = "none"
  /\ ret = Result("none", Null)
  /\ userId = User1
  /\ guestPlayedPuzzles = << >>
  /\ recent_puzzle_ids \in {DbArray(l) : l \in SeqsUpTo(RawIds, MaxStoredLen)}
  /\ difficulty = "none"
  /\ puzzleId = Null
  /\ dbRead = "none"
  /\ dbWrite = "none"
  /\ ops = 0
  /\ AppIdle

NextStored ==
  \/ CallGetUnplayedPuzzleByDifficulty
  \/ CallAddPuzzleToRecentQueue

SpecStored == InitStored /\ [][NextStored]_vars

-----------------------------------------------------------------------------
(* Race: two addPuzzleToRecentQueue calls of the same player, from two     *)
(* sessions, each split at its two awaits.  The calls stay in adds when    *)
(* they are over, with what they read and the order of their updates;      *)
(* ops counts the updates done.                                            *)

\* ids the two calls record: two that the start ledgers hold and two new ones
RaceIds == {Str(ToString(n)) : n \in {1, 2, QueueCap + 1, QueueCap + 2}}

\* lengths of the ledgers the two calls start from
RaceLens == {0, 1, 2, QueueCap}

\* an addPuzzleToRecentQueue call before its select
RaceCall(uid, pid) ==
  [userId |-> uid, puzzleId |-> pid, phase |-> "select", recentPuzzles |-> << >>,
   column |-> DbNull, readAfter |-> 0, wrote |-> 0]

InitRace ==
  /\ OverlayIdle
  /\ call = "none"
  /\ ret = Result("none", Null)
  /\ userId = User1
  /\ guestPlayedPuzzles = << >>
  /\ recent_puzzle_ids \in {DbNull} \cup {DbArray(Run(1, len)) : len \in RaceLens}
  /\ difficulty = "none"
  /\ puzzleId = Null
  /\ dbRead = "none"
  /\ dbWrite = "none"
  /\ ops = 0
  /\ TimersIdle
  /\ session = TRUE
  /\ home = HomeInitial
  /\ diff = DiffInitial
  /\ game = GameInitial
  /\ pendingSelect = NoSelect
  /\ adds \in {<<RaceCall(User1, p), RaceCall(User1, q)>> : p, q \in RaceIds}
  /\ history = NoHistory

raceFrame == <<overlayVars, call, ret, guestPlayedPuzzles, userId, difficulty, puzzleId,
               dbRead, dbWrite, session, home, diff, game, pendingSelect, history,
               inactivity, idle>>

\* the update storing a list computed from the column as it is stored by then
updatedColumnFromStored(c, stored) == recentAfterAdd(stored, c.puzzleId)

\* the value the update stores: the list computed from the column the call read
updatedColumn(c, stored) == c.recentPuzzles

\* the select of call k returns; on an error the call throws
RaceSelect ==
  /\ \E k \in DOMAIN adds :
       /\ adds[k].phase = "select"
       /\ \E outcome \in {"ok", "error"} :
            adds' = IF outcome = "ok"
                    THEN [adds EXCEPT ![k].phase = "update",
                                      ![k].column = recent_puzzle_ids,
                                      ![k].readAfter = ops,
                                      ![k].recentPuzzles =
                                         recentAfterAdd(recent_puzzle_ids, adds[k].puzzleId)]
                    ELSE [adds EXCEPT ![k].phase = "failed"]
  /\ UNCHANGED <<raceFrame, recent_puzzle_ids, ops>>

\* the update of call k returns; on an error the call throws
RaceUpdate ==
  /\ \E k \in DOMAIN adds :
       /\ adds[k].phase = "update"
       /\ \E outcome \in {"ok", "error"} :
            IF outcome = "ok"
            THEN /\ recent_puzzle_ids' = DbArray(updatedColumn(adds[k], recent_puzzle_ids))
                 /\ ops' = ops + 1
                 /\ adds' = [adds EXCEPT ![k].phase = "done", ![k].wrote = ops + 1]
            ELSE /\ adds' = [adds EXCEPT ![k].phase = "failed"]
                 /\ UNCHANGED <<recent_puzzle_ids, ops>>
  /\ UNCHANGED raceFrame

NextRace ==
  \/ RaceSelect
  \/ RaceUpdate

SpecRace == InitRace /\ [][NextRace]_vars

-----------------------------------------------------------------------------
(* Serving: a player, guest or signed in, who keeps requesting puzzles; each *)
(* puzzle returned is recorded before the next request, and every store     *)
(* call succeeds                                                            *)

InitServe ==
  /\ OverlayIdle
  /\ call = "none"
  /\ ret = Result("none", Null)
  /\ userId \in {Null, User1}
  /\ guestPlayedPuzzles = << >>
  /\ recent_puzzle_ids \in IF Falsy(userId) THEN {DbNull} ELSE {DbNull, DbArray(<< >>)}
  /\ difficulty = "none"
  /\ puzzleId = Null
  /\ dbRead = "none"
  /\ dbWrite = "none"
  /\ ops = 0
  /\ AppIdle

\* the puzzle returned by the last request is still to be recorded
Presented == call = "getUnplayedPuzzleByDifficulty" /\ ret.kind = "value"

\* history after the request returned r
Served(r) ==
  IF r.kind = "value"
  THEN [served |-> history.served \cup {r.value.id.text},
        repeated |-> history.repeated \/ r.value.id.text \in history.served]
  ELSE history

\* handleDifficultySelect: getUnplayedPuzzleByDifficulty for a difficulty
ServeRequest ==
  /\ ~Presented
  /\ \E d \in Difficulties :
       /\ difficulty' = d
       /\ dbRead' = IF reachesLedgerRead(userId, d, "ok") THEN "ok" ELSE "none"
       /\ \E r \in getUnplayedPuzzleByDifficulty(userId, d, guestPlayedPuzzles,
                                                  recent_puzzle_ids, "ok", "ok") :
            /\ ret' = r
            /\ history' = Served(r)
  /\ call' = "getUnplayedPuzzleByDifficulty"
  /\ UNCHANGED <<overlayVars, ledgerVars, userId, puzzleId, dbWrite, ops,
                 session, home, diff, game, pendingSelect, adds,
                 inactivity, idle>>

\* trackPuzzle for the puzzle returned: addPuzzleToRecentQueue for a player,
\* handleGuestPuzzlePlayed for a guest
ServeRecord ==
  /\ Presented
  /\ puzzleId' = ret.value.id
  /\ IF Falsy(userId)
     THEN /\ guestPlayedPuzzles' = guestAfterPlayed(guestPlayedPuzzles, ret.value.id)
          /\ call' = "handleGuestPuzzlePlayed"
          /\ ret' = Result("void", Null)
          /\ UNCHANGED <<recent_puzzle_ids, dbRead, dbWrite>>
     ELSE /\ recent_puzzle_ids' = DbArray(recentAfterAdd(recent_puzzle_ids, ret.value.id))
          /\ call' = "addPuzzleToRecentQueue"
          /\ ret' = Returned(DbArray(recentAfterAdd(recent_puzzle_ids, ret.value.id)))
          /\ dbRead' = "ok"
          /\ dbWrite' = "ok"
          /\ UNCHANGED guestPlayedPuzzles
  /\ UNCHANGED <<overlayVars, userId, difficulty, ops, appVars>>

NextServe ==
  \/ ServeRequest
  \/ ServeRecord

SpecServe == InitServe /\ [][NextServe]_vars

\* the player keeps requesting, and every puzzle presented gets recorded
SpecServeFair == SpecServe /\ WF_vars(ServeRequest) /\ WF_vars(ServeRecord)

-----------------------------------------------------------------------------
(* Play: the application from its first render.  Every handler of Home, of *)
(* DifficultySelection and of Game is one action; an awaited store call is *)
(* a later action; an effect runs in the action whose render triggers it.  *)
(* Difficulty names are kept in lower case throughout.                     *)

\* most addPuzzleToRecentQueue calls in flight at once
MaxInflight == 1

\* most runs of the trackPuzzle effect in one presentation
MaxTracks == 2

\* an addPuzzleToRecentQueue call before its select
AddCall(uid, pid) ==
  [userId |-> uid, puzzleId |-> pid, phase |-> "select", recentPuzzles |-> << >>,
   fetchError |-> FALSE]

\* trackPuzzle, guest branch: the list setGuestPlayedPuzzles leaves
trackGuestList(list, uid, pid) ==
  IF Falsy(uid) THEN guestAfterPlayed(list, pid) ELSE list

\* trackPuzzle, logged-in branch: the calls in flight after the effect
trackAdds(inflight, uid, pid) ==
  IF ~Falsy(uid) THEN Append(inflight, AddCall(uid, pid)) ELSE inflight

\* whether the effect may run for uid within the bounds
TrackAllowed(uid) ==
  /\ game.trackCalls < MaxTracks
  /\ Falsy(uid) \/ Len(adds) < MaxInflight

\* sequence s without its element k
RemoveAt(s, k) == [i \in 1 .. (Len(s) - 1) |-> IF i < k THEN s[i] ELSE s[i + 1]]

playIdle == <<overlayVars, call, ret, difficulty, puzzleId, dbRead, dbWrite, ops, history,
              inactivity, idle>>

\* DifficultySelection leaves the tree, or enters it anew
DifficultyFresh ==
  /\ diff' = DiffInitial
  /\ game' = GameInitial
  /\ pendingSelect' = NoSelect

InitPlay ==
  /\ OverlayIdle
  /\ call = "none"
  /\ ret = Result("none", Null)
  /\ ArgsIdle
  /\ recent_puzzle_ids \in {DbNull, DbArray(Run(1, 1))}
  /\ guestPlayedPuzzles = << >>
  /\ session \in BOOLEAN
  /\ home = HomeInitial
  /\ diff = DiffInitial
  /\ game = GameInitial
  /\ pendingSelect = NoSelect
  /\ adds = << >>
  /\ history = NoHistory
  /\ TimersIdle

handlePlay ==
  /\ ~home.showDifficulty
  /\ ~home.showModal
  /\ IF home.isAuthenticated /\ ~Falsy(userId)
     THEN home' = [home EXCEPT !.showDifficulty = TRUE]
     ELSE home' = [home EXCEPT !.showModal = TRUE]
  /\ UNCHANGED <<playIdle, ledgerVars, userId, session, diff, game, pendingSelect, adds>>

handleCloseModal ==
  /\ ~home.showDifficulty
  /\ home.showModal
  /\ home' = [home EXCEPT !.showModal = FALSE]
  /\ UNCHANGED <<playIdle, ledgerVars, userId, session, diff, game, pendingSelect, adds>>

\* Home.handleSubmit, login: signIn succeeds and the profile is fetched, or
\* the profile fetch throws (a signIn that throws changes nothing)
Home_handleSubmit ==
  /\ ~home.showDifficulty
  /\ home.showModal
  /\ session' = TRUE
  /\ \/ /\ userId' = User1
        /\ home' = [home EXCEPT !.isAuthenticated = TRUE, !.showModal = FALSE,
                                !.showDifficulty = TRUE]
     \/ /\ ~session
        /\ UNCHANGED <<userId, home>>
  /\ UNCHANGED <<playIdle, ledgerVars, diff, game, pendingSelect, adds>>

handleGuestSignIn ==
  /\ ~home.showDifficulty
  /\ home.showModal
  /\ home' = [home EXCEPT !.isGuest = TRUE, !.showModal = FALSE, !.showDifficulty = TRUE]
  /\ userId' = Null
  /\ UNCHANGED <<playIdle, ledgerVars, session, diff, game, pendingSelect, adds>>

handleBackHome ==
  /\ ListScreen
  /\ IF home.isGuest
     THEN /\ home' = [home EXCEPT !.showDifficulty = FALSE, !.isGuest = FALSE]
          /\ guestPlayedPuzzles' = << >>
     ELSE /\ home' = [home EXCEPT !.showDifficulty = FALSE]
          /\ UNCHANGED guestPlayedPuzzles
  /\ DifficultyFresh
  /\ UNCHANGED <<playIdle, recent_puzzle_ids, userId, session, adds>>

\* handleSignOut with a currentUser, from the Sign Out button or from the
\* inactivity timeout, when signOut succeeds (one that throws changes nothing)
handleSignOut ==
  /\ ~Falsy(userId)
  /\ home.isAuthenticated \/ ListScreen
  /\ session' = FALSE
  /\ userId' = Null
  /\ home' = [home EXCEPT !.isAuthenticated = FALSE, !.isGuest = FALSE,
                          !.showDifficulty = FALSE]
  /\ DifficultyFresh
  /\ UNCHANGED <<playIdle, ledgerVars, adds>>

\* checkUser, run on mount and every two minutes, finds no session
checkUserInvalid ==
  /\ ~session
  /\ home' = [home EXCEPT !.isAuthenticated = FALSE, !.isGuest = FALSE,
                          !.showDifficulty = FALSE]
  /\ userId' = Null
  /\ DifficultyFresh
  /\ UNCHANGED <<playIdle, ledgerVars, session, adds>>

\* the trackPuzzle effect of a mounted Game runs again when its userId changes
RetrackOnUserChange(uid) ==
  IF GameMounted /\ uid # userId
  THEN /\ TrackAllowed(uid)
       /\ game' = [game EXCEPT !.trackCalls = game.trackCalls + 1]
       /\ guestPlayedPuzzles' = trackGuestList(guestPlayedPuzzles, uid, diff.currentPuzzle.id)
       /\ adds' = trackAdds(adds, uid, diff.currentPuzzle.id)
  ELSE UNCHANGED <<game, guestPlayedPuzzles, adds>>

\* checkUser finds a session and the profile
checkUserProfile ==
  /\ session
  /\ userId' = User1
  /\ home' = [home EXCEPT !.isAuthenticated = TRUE, !.isGuest = FALSE]
  /\ RetrackOnUserChange(User1)
  /\ UNCHANGED <<playIdle, session, recent_puzzle_ids, diff, pendingSelect>>

\* checkUser finds a session and the profile fetch throws
checkUserCatch ==
  /\ session
  /\ userId' = Null
  /\ home' = [home EXCEPT !.isAuthenticated = FALSE, !.isGuest = FALSE]
  /\ RetrackOnUserChange(Null)
  /\ UNCHANGED <<playIdle, session, recent_puzzle_ids, diff, pendingSelect>>


\* the session held by supabase.auth ends
SessionExpires ==
  /\ session
  /\ session' = FALSE
  /\ UNCHANGED <<playIdle, ledgerVars, userId, home, diff, game, pendingSelect, adds>>

\* handleDifficultySelect up to its await
StartSelect(d) ==
  /\ diff' = [diff EXCEPT !.loading = TRUE, !.error = FALSE, !.noPuzzlesLeft = FALSE]
  /\ pendingSelect' = [NoSelect EXCEPT
                         !.active = TRUE, !.difficulty = d, !.userId = userId,
                         !.guestPlayedPuzzles =
                            IF Falsy(userId) THEN guestPlayedPuzzles ELSE << >>]

handleDifficultySelect ==
  /\ ListScreen
  /\ ~diff.loading
  /\ \E d \in Difficulties : StartSelect(d)
  /\ UNCHANGED <<playIdle, ledgerVars, userId, session, home, game, adds>>

\* handleNextPuzzle, from the success modal
handleNextPuzzle ==
  /\ SuccessModal
  /\ diff.selectedDifficulty # "none"
  /\ diff' = [diff EXCEPT !.currentPuzzle = NoPuzzle, !.gameStarted = FALSE,
                          !.loading = TRUE, !.error = FALSE, !.noPuzzlesLeft = FALSE]
  /\ pendingSelect' = [NoSelect EXCEPT
                         !.active = TRUE, !.difficulty = diff.selectedDifficulty,
                         !.userId = userId,
                         !.guestPlayedPuzzles =
                            IF Falsy(userId) THEN guestPlayedPuzzles ELSE << >>,
                         !.fromPuzzle = diff.currentPuzzle.id]
  /\ game' = GameInitial
  /\ UNCHANGED <<playIdle, ledgerVars, userId, session, home, adds>>

\* handleDifficultySelect after its await: the puzzle is set and Game mounts,
\* running trackPuzzle for the userId Game is given
SelectReturnsPuzzle(p) ==
  /\ Falsy(userId) \/ Len(adds) < MaxInflight
  /\ diff' = [diff EXCEPT !.currentPuzzle = p, !.selectedDifficulty = pendingSelect.difficulty,
                          !.gameStarted = TRUE, !.loading = FALSE]
  /\ game' = [GameInitial EXCEPT !.trackCalls = 1]
  /\ guestPlayedPuzzles' = trackGuestList(guestPlayedPuzzles, userId, p.id)
  /\ adds' = trackAdds(adds, userId, p.id)

SelectReturnsNull ==
  /\ diff' = [diff EXCEPT !.noPuzzlesLeft = TRUE, !.selectedDifficulty = pendingSelect.difficulty,
                          !.gameStarted = TRUE, !.loading = FALSE]
  /\ UNCHANGED <<game, guestPlayedPuzzles, adds>>

SelectThrows ==
  /\ diff' = [diff EXCEPT !.error = TRUE, !.loading = FALSE]
  /\ UNCHANGED <<game, guestPlayedPuzzles, adds>>

\* the outcomes of a store call
StoreOutcomes == {"ok", "error"}

\* handleDifficultySelect after its await, given what the selection returned
SelectDelivers(r) ==
  /\ IF r.kind = "value" THEN SelectReturnsPuzzle(r.value)
     ELSE IF r.kind = "null" THEN SelectReturnsNull
     ELSE SelectThrows
  /\ pendingSelect' = NoSelect
  /\ UNCHANGED <<playIdle, recent_puzzle_ids, userId, session, home>>

\* getUnplayedPuzzleByDifficulty is served and handleDifficultySelect goes on
\* in one step; each store call of the selection has an outcome of Outcomes
SelectResolves(Outcomes) ==
  /\ pendingSelect.active
  /\ pendingSelect.result.kind = "none"
  /\ \E fetch \in Outcomes, read \in Outcomes :
       \E r \in getUnplayedPuzzleByDifficulty(pendingSelect.userId, pendingSelect.difficulty,
                                              pendingSelect.guestPlayedPuzzles,
                                              recent_puzzle_ids, fetch, read) :
         SelectDelivers(r)

\* the store serves the calls of getUnplayedPuzzleByDifficulty: the ledger is
\* read now, the result reaches handleDifficultySelect later
SelectServed(Outcomes) ==
  /\ pendingSelect.active
  /\ pendingSelect.result.kind = "none"
  /\ \E fetch \in Outcomes, read \in Outcomes :
       \E r \in getUnplayedPuzzleByDifficulty(pendingSelect.userId, pendingSelect.difficulty,
                                              pendingSelect.guestPlayedPuzzles,
                                              recent_puzzle_ids, fetch, read) :
         pendingSelect' = [pendingSelect EXCEPT !.result = r]
  /\ UNCHANGED <<playIdle, ledgerVars, userId, session, home, diff, game, adds>>

\* the result served reaches handleDifficultySelect
SelectDelivered ==
  /\ pendingSelect.active
  /\ pendingSelect.result.kind # "none"
  /\ SelectDelivers(pendingSelect.result)

handleBackToDifficulty ==
  /\ NoPuzzlesScreen \/ (GameMounted /\ ~game.isAnimating)
  /\ diff' = [diff EXCEPT !.gameStarted = FALSE, !.selectedDifficulty = "none",
                          !.currentPuzzle = NoPuzzle, !.error = FALSE,
                          !.noPuzzlesLeft = FALSE]
  /\ game' = GameInitial
  /\ UNCHANGED <<playIdle, ledgerVars, userId, session, home, pendingSelect, adds>>

\* indices of availableGrids, as the source counts them
GridIndices == DOMAIN gamePuzzle(NoPuzzle).availableGrids

\* handleGridClick without the length test of its select branch
selectedAfterClickNoMax(selectedIndices, index) ==
  IF \E k \in DOMAIN selectedIndices : selectedIndices[k] = index
  THEN SelectSeq(selectedIndices, LAMBDA i : i # index)
  ELSE Append(selectedIndices, index)

\* the selection handleGridClick sets: deselect, or select up to 3
selectedAfterClick(selectedIndices, index) ==
  IF \E k \in DOMAIN selectedIndices : selectedIndices[k] = index
  THEN SelectSeq(selectedIndices, LAMBDA i : i # index)
  ELSE IF Len(selectedIndices) < 3
  THEN Append(selectedIndices, index)
  ELSE selectedIndices

handleGridClick ==
  /\ GameMounted
  /\ ~game.isAnimating
  /\ \E index \in GridIndices :
       game' = [game EXCEPT
                  !.selectedIndices = selectedAfterClick(game.selectedIndices, index),
                  !.showResult = FALSE]
  /\ UNCHANGED <<playIdle, ledgerVars, userId, session, home, diff, pendingSelect, adds>>

\* the grids handleSubmit hands to validateSolution
selectedGrids(puzzle, selectedIndices) ==
  [k \in DOMAIN selectedIndices |-> gamePuzzle(puzzle).availableGrids[selectedIndices[k]]]

\* the timeouts of a correct submission: the phases 1 to 6
CorrectTimers == <<1, 2, 3, 4, 5, 6>>

\* most timeouts of one Game pending at once
MaxTimers == 12

\* the timeout of an incorrect submission, which ends the shake
ShakeTimers == <<0>>

\* Game.handleSubmit, from the SUBMIT button.  Its timeouts are set behind the
\* ones still pending, which were set earlier and fire first.
Game_handleSubmit ==
  /\ GameMounted
  /\ Len(game.selectedIndices) = 3
  /\ ~game.isAnimating
  /\ LET correct == validateSolution(selectedGrids(diff.currentPuzzle, game.selectedIndices),
                                     gamePuzzle(diff.currentPuzzle).target)
         timeouts == IF correct THEN CorrectTimers ELSE ShakeTimers
     IN  /\ Len(game.timers) + Len(timeouts) <= MaxTimers
         /\ IF correct
            THEN game' = [game EXCEPT !.isCorrect = TRUE, !.isAnimating = TRUE,
                                      !.timers = game.timers \o timeouts]
            ELSE game' = [game EXCEPT !.isCorrect = FALSE, !.isAnimating = TRUE,
                                      !.showIncorrectShake = TRUE,
                                      !.timers = game.timers \o timeouts]
  /\ UNCHANGED <<playIdle, ledgerVars, userId, session, home, diff, pendingSelect, adds>>

\* the next timeout of handleSubmit fires
TimerFires ==
  /\ GameMounted
  /\ game.timers # << >>
  /\ LET t == Head(game.timers)
     IN  game' =
           IF t = 0
           THEN [game EXCEPT !.showIncorrectShake = FALSE, !.isAnimating = FALSE,
                             !.selectedIndices = << >>, !.timers = Tail(game.timers)]
           ELSE IF t = 6
           THEN [game EXCEPT !.animationPhase = 6, !.showResult = TRUE,
                             !.isAnimating = FALSE, !.timers = Tail(game.timers)]
           ELSE [game EXCEPT !.animationPhase = t, !.timers = Tail(game.timers)]
  /\ UNCHANGED <<playIdle, ledgerVars, userId, session, home, diff, pendingSelect, adds>>

\* handleReset, from the RESET button (disabled while isAnimating) or from the
\* TRY AGAIN button of the success modal; no pending timeout is cleared
handleReset ==
  /\ GameMounted
  /\ ~game.isAnimating \/ SuccessModal
  /\ game' = [game EXCEPT !.selectedIndices = << >>, !.showResult = FALSE,
                          !.isCorrect = FALSE, !.isAnimating = FALSE,
                          !.animationPhase = 0, !.showIncorrectShake = FALSE]
  /\ UNCHANGED <<playIdle, ledgerVars, userId, session, home, diff, pendingSelect, adds>>

\* addPuzzleToRecentQueue without "if (fetchError) throw fetchError": userData
\* is null after a failed select and the list starts empty
addAfterSelectNoThrow(c, column, outcome) ==
  [c EXCEPT !.phase = "update",
            !.fetchError = (outcome = "error"),
            !.recentPuzzles = recentAfterAdd(IF outcome = "error" THEN DbNull ELSE column,
                                             c.puzzleId)]

\* addPuzzleToRecentQueue from its select to its update: the call throws on a
\* fetchError, and computes recentPuzzles otherwise
addAfterSelect(c, column, outcome) ==
  IF outcome = "error"
  THEN [c EXCEPT !.phase = "throw", !.fetchError = TRUE]
  ELSE [c EXCEPT !.phase = "update",
                 !.recentPuzzles = recentAfterAdd(column, c.puzzleId)]

\* trackPuzzle's catch: the error of call c is logged; the Game that issued
\* the call keeps the name of the error while it shows that puzzle
caughtBy(c, err) ==
  IF GameMounted /\ diff.currentPuzzle.id = c.puzzleId /\ userId = c.userId
  THEN [game EXCEPT !.caught = err]
  ELSE game

\* addPuzzleToRecentQueue: the select returns
AddSelect(Outcomes) ==
  /\ \E k \in DOMAIN adds, outcome \in Outcomes :
       /\ adds[k].phase = "select"
       /\ LET c == addAfterSelect(adds[k], recent_puzzle_ids, outcome)
          IN  IF c.phase = "throw"
              THEN /\ adds' = RemoveAt(adds, k)
                   /\ game' = caughtBy(c, "fetchError")
              ELSE /\ adds' = [adds EXCEPT ![k] = c]
                   /\ UNCHANGED game
  /\ UNCHANGED <<playIdle, ledgerVars, userId, session, home, diff, pendingSelect>>

\* addPuzzleToRecentQueue: the update returns; on an error the call throws
AddUpdate(Outcomes) ==
  /\ \E k \in DOMAIN adds, outcome \in Outcomes :
       /\ adds[k].phase = "update"
       /\ adds' = RemoveAt(adds, k)
       /\ IF outcome = "ok"
          THEN /\ recent_puzzle_ids' = DbArray(adds[k].recentPuzzles)
               /\ UNCHANGED game
          ELSE /\ UNCHANGED recent_puzzle_ids
               /\ game' = caughtBy(adds[k], "updateError")
  /\ UNCHANGED <<playIdle, guestPlayedPuzzles, userId, session, home, diff, pendingSelect>>

\* the whole application but the inside of the Game view: sessions of both
\* kinds, selections, presentations and their record calls
NextPlay ==
  \/ handlePlay
  \/ handleCloseModal
  \/ Home_handleSubmit
  \/ handleGuestSignIn
  \/ handleBackHome
  \/ handleSignOut
  \/ checkUserInvalid
  \/ checkUserProfile
  \/ checkUserCatch
  \/ SessionExpires
  \/ handleDifficultySelect
  \/ SelectResolves(StoreOutcomes)
  \/ handleBackToDifficulty
  \/ AddSelect(StoreOutcomes)
  \/ AddUpdate(StoreOutcomes)

SpecPlay == InitPlay /\ [][NextPlay]_vars

\* a browser that never signs in: guest sessions, with the Game view played
InitGuest ==
  /\ OverlayIdle
  /\ call = "none"
  /\ ret = Result("none", Null)
  /\ LedgerIdle
  /\ ArgsIdle
  /\ AppIdle

NextGuest ==
  \/ handlePlay
  \/ handleCloseModal
  \/ handleGuestSignIn
  \/ handleBackHome
  \/ checkUserInvalid
  \/ handleDifficultySelect
  \/ handleNextPuzzle
  \/ SelectResolves(StoreOutcomes)
  \/ handleBackToDifficulty
  \/ handleGridClick
  \/ Game_handleSubmit
  \/ TimerFires
  \/ handleReset

SpecGuest == InitGuest /\ [][NextGuest]_vars

-----------------------------------------------------------------------------
(* Next: a guest or a signed-in player who has solved the presented puzzle *)
(* and asks for the next one, with every store call succeeding.  The       *)
(* selection is served by the store in one step and reaches the view in a  *)
(* later one; the record call issued at the mount is still before its      *)
(* select.                                                                 *)

\* every store call succeeds
Succeeding == {"ok"}

\* most ids in the ledger before the presented puzzle was recorded
MaxBefore == 1

\* Game when the success modal has opened
SolvedGame ==
  [GameInitial EXCEPT !.selectedIndices = <<0, 1, 2>>, !.showResult = TRUE,
                      !.isCorrect = TRUE, !.animationPhase = 6, !.trackCalls = 1]

InitNext ==
  /\ OverlayIdle
  /\ call = "none"
  /\ ret = Result("none", Null)
  /\ difficulty = "none"
  /\ puzzleId = Null
  /\ dbRead = "none"
  /\ dbWrite = "none"
  /\ ops = 0
  /\ history = NoHistory
  /\ TimersIdle
  /\ pendingSelect = NoSelect
  /\ game = SolvedGame
  /\ \E n \in DOMAIN puzzles :
       \E before \in SeqsUpTo(StringIds \ {puzzles[n].id}, MaxBefore) :
         /\ diff = [DiffInitial EXCEPT !.selectedDifficulty = puzzles[n].difficulty_type,
                                       !.currentPuzzle = puzzles[n],
                                       !.gameStarted = TRUE]
         /\ \/ /\ userId = Null
               /\ session = FALSE
               /\ home = [HomeInitial EXCEPT !.isGuest = TRUE, !.showDifficulty = TRUE]
               /\ guestPlayedPuzzles = Append(before, puzzles[n].id)
               /\ recent_puzzle_ids = DbNull
               /\ adds = << >>
            \/ /\ userId = User1
               /\ session = TRUE
               /\ home = [HomeInitial EXCEPT !.isAuthenticated = TRUE, !.showDifficulty = TRUE]
               /\ guestPlayedPuzzles = << >>
               /\ recent_puzzle_ids = IF before = << >> THEN DbNull ELSE DbArray(before)
               /\ adds = <<AddCall(User1, puzzles[n].id)>>

NextNext ==
  \/ handleNextPuzzle
  \/ SelectServed(Succeeding)
  \/ SelectDelivered
  \/ AddSelect(Succeeding)
  \/ AddUpdate(Succeeding)
  \/ handleBackToDifficulty
  \/ handleDifficultySelect

SpecNext == InitNext /\ [][NextNext]_vars

-----------------------------------------------------------------------------
(* Track: a signed-in player plays the puzzle the Game view has just      *)
(* mounted while the record call of the mount effect is in flight; its    *)
(* store calls succeed or fail.                                            *)

InitTrack ==
  /\ OverlayIdle
  /\ call = "none"
  /\ ret = Result("none", Null)
  /\ difficulty = "none"
  /\ puzzleId = Null
  /\ dbRead = "none"
  /\ dbWrite = "none"
  /\ ops = 0
  /\ history = NoHistory
  /\ TimersIdle
  /\ pendingSelect = NoSelect
  /\ game = [GameInitial EXCEPT !.trackCalls = 1]
  /\ userId = User1
  /\ session = TRUE
  /\ home = [HomeInitial EXCEPT !.isAuthenticated = TRUE, !.showDifficulty = TRUE]
  /\ guestPlayedPuzzles = << >>
  /\ \E n \in DOMAIN puzzles :
       \E before \in SeqsUpTo(StringIds \ {puzzles[n].id}, MaxBefore) :
         /\ diff = [DiffInitial EXCEPT !.selectedDifficulty = puzzles[n].difficulty_type,
                                       !.currentPuzzle = puzzles[n],
                                       !.gameStarted = TRUE]
         /\ recent_puzzle_ids = IF before = << >> THEN DbNull ELSE DbArray(before)
         /\ adds = <<AddCall(User1, puzzles[n].id)>>

NextTrack ==
  \/ AddSelect(StoreOutcomes)
  \/ AddUpdate(StoreOutcomes)
  \/ handleGridClick
  \/ Game_handleSubmit
  \/ TimerFires
  \/ handleReset
  \/ handleBackToDifficulty

SpecTrack == InitTrack /\ [][NextTrack]_vars

-----------------------------------------------------------------------------
(* Idle: Home's timers, with the time in minutes.  timeoutRef and interval *)
(* hold the minutes left until the timeout fires (-1: none pending); the   *)
(* one-second throttle timeout fires before the minute is over.  A timer   *)
(* that is due fires before the time goes on.                              *)

\* useInactivityTimeout(..., 5)
TimeoutMinutes == 5

\* setInterval(checkUser, 2 * 60 * 1000)
PollMinutes == 2

\* the idle time is counted up to here
MaxIdle == 7

\* resetTimer: the pending timeout is cleared and a new one is set
resetTimer(timers) == [timers EXCEPT !.timeoutRef = TimeoutMinutes]

\* the effect of useInactivityTimeout runs again: its cleanup clears both
\* timeouts, its body calls resetTimer
inactivityEffect(timers) == resetTimer([timers EXCEPT !.throttleTimeout = FALSE])

\* Home renders again: onInactive is a new arrow function in every render, so
\* resetTimer, whose dependencies hold it, is a new function and the effect,
\* whose dependency is resetTimer, runs again
HomeRenders(timers) == inactivityEffect(timers)

\* Home is mounted, checkUser has found the session and the profile
InitIdle ==
  /\ OverlayIdle
  /\ call = "none"
  /\ ret = Result("none", Null)
  /\ LedgerIdle
  /\ userId = User1
  /\ difficulty = "none"
  /\ puzzleId = Null
  /\ dbRead = "none"
  /\ dbWrite = "none"
  /\ ops = 0
  /\ session = TRUE
  /\ home = [HomeInitial EXCEPT !.isAuthenticated = TRUE]
  /\ diff = DiffInitial
  /\ game = GameInitial
  /\ pendingSelect = NoSelect
  /\ adds = << >>
  /\ history = NoHistory
  /\ inactivity = [timeoutRef |-> TimeoutMinutes, throttleTimeout |-> FALSE,
                   interval |-> PollMinutes]
  /\ idle = 0

idleFrame == <<overlayVars, call, ret, ledgerVars, difficulty, puzzleId, dbRead, dbWrite,
               ops, diff, game, pendingSelect, adds, history>>

\* a minute passes without an activity event
MinutePasses ==
  /\ idle < MaxIdle
  /\ inactivity.timeoutRef # 0
  /\ inactivity.interval # 0
  /\ ~inactivity.throttleTimeout
  /\ inactivity' = [inactivity EXCEPT
                      !.timeoutRef = IF @ > 0 THEN @ - 1 ELSE @,
                      !.interval = IF @ > 0 THEN @ - 1 ELSE @]
  /\ idle' = idle + 1
  /\ UNCHANGED <<idleFrame, userId, session, home>>

\* handleActivity, on mousedown, mousemove, keypress, scroll, touchstart, click
handleActivity ==
  /\ inactivity' = [inactivity EXCEPT !.throttleTimeout = TRUE]
  /\ idle' = 0
  /\ UNCHANGED <<idleFrame, userId, session, home>>

\* the throttle timeout fires
ThrottleFires ==
  /\ inactivity.throttleTimeout
  /\ inactivity' = resetTimer([inactivity EXCEPT !.throttleTimeout = FALSE])
  /\ UNCHANGED <<idleFrame, userId, session, home, idle>>

\* the inactivity timeout fires: onInactive, and handleSignOut for a user whose
\* signOut succeeds or throws
InactivityFires ==
  /\ inactivity.timeoutRef = 0
  /\ IF home.isAuthenticated /\ ~Falsy(userId)
     THEN \/ /\ session' = FALSE
             /\ userId' = Null
             /\ home' = [home EXCEPT !.isAuthenticated = FALSE, !.isGuest = FALSE,
                                     !.showDifficulty = FALSE]
             /\ inactivity' = HomeRenders(inactivity)
          \/ /\ inactivity' = [inactivity EXCEPT !.timeoutRef = -1]
             /\ UNCHANGED <<session, userId, home>>
     ELSE /\ inactivity' = [inactivity EXCEPT !.timeoutRef = -1]
          /\ UNCHANGED <<session, userId, home>>
  /\ UNCHANGED <<idleFrame, idle>>

\* Home's state after checkUser
checkUserState(outcome) ==
  IF outcome = "profile"
  THEN [userId |-> User1,
        home |-> [home EXCEPT !.isAuthenticated = TRUE, !.isGuest = FALSE]]
  ELSE IF outcome = "throws"
  THEN [userId |-> Null,
        home |-> [home EXCEPT !.isAuthenticated = FALSE, !.isGuest = FALSE]]
  ELSE [userId |-> Null,
        home |-> [home EXCEPT !.isAuthenticated = FALSE, !.isGuest = FALSE,
                              !.showDifficulty = FALSE]]

\* whether checkUser's setters make Home render again: setCurrentUser(profile)
\* stores a new object; the other setters store primitives and null
checkUserRenders(outcome) ==
  \/ outcome = "profile"
  \/ checkUserState(outcome).userId # userId
  \/ checkUserState(outcome).home # home

\* the interval fires: checkUser
IntervalFires ==
  /\ inactivity.interval = 0
  /\ \E outcome \in IF session THEN {"profile", "throws"} ELSE {"invalid"} :
       /\ userId' = checkUserState(outcome).userId
       /\ home' = checkUserState(outcome).home
       /\ inactivity' =
            LET timers == [inactivity EXCEPT !.interval = PollMinutes]
            IN  IF checkUserRenders(outcome) THEN HomeRenders(timers) ELSE timers
  /\ UNCHANGED <<idleFrame, session, idle>>

NextIdle ==
  \/ MinutePasses
  \/ handleActivity
  \/ ThrottleFires
  \/ InactivityFires
  \/ IntervalFires
  \/ SessionExpires

SpecIdle == InitIdle /\ [][NextIdle]_vars

-----------------------------------------------------------------------------
(* Vocabulary of the properties, stated over cells rather than loops *)

At(g, c) == g[c[1]][c[2]]

Colored(g, c) == At(g, c) # "X"

\* some cell is colored by both grids
Conflict(a, b) == \E c \in Cells : Colored(a, c) /\ Colored(b, c)

AllEmpty(g) == \A c \in Cells : At(g, c) = "X"

SameCells(a, b) == \A c \in Cells : At(a, c) = At(b, c)

\* every two grids at different positions of the sequence are canOverlay
PairwiseCanOverlay(grids) ==
  \A m, n \in DOMAIN grids : m # n => canOverlay(grids[m], grids[n])

\* positions of the sequence whose grid colors cell c
Writers(grids, c) == {k \in DOMAIN grids : Colored(grids[k], c)}

LastOf(S) == CHOOSE k \in S : \A l \in S : l <= k

Permuted(grids, p) == [k \in DOMAIN grids |-> grids[p[k]]]

-----------------------------------------------------------------------------
(* Overlay engine: properties of the general functions, under Spec *)

\* C1: validateSolution(selected, target) returns true if and only if selected
\* has exactly 3 grids, every pair among them satisfies canOverlay, and
\* overlayGrids(selected) equals target cell for cell.
C1_ValidateIffThreeCompatibleMatching ==
  call = "validateSolution" =>
    (ret = TRUE <=> /\ Len(selected) = 3
                    /\ PairwiseCanOverlay(selected)
                    /\ SameCells(overlayGrids(selected), target))

\* a call that accepted three different colored grids
C1_Witness ==
  /\ call = "validateSolution"
  /\ ret = TRUE
  /\ Len(selected) = 3
  /\ \A m \in 1 .. 3 : ~AllEmpty(selected[m])

\* C2: validateSolution returns false for every input of length 0, 1, 2, 4 or
\* more, whatever the grids and the target, also when the overlay of the
\* supplied grids equals the target.
C2_WrongCountIsFalse ==
  (call = "validateSolution" /\ Len(selected) # 3) => ret = FALSE

\* four compatible grids whose overlay is the target, rejected
C2_Witness ==
  /\ call = "validateSolution"
  /\ Len(selected) = 4
  /\ ~AllEmpty(target)
  /\ ~Conflict(selected[1], selected[2])
  /\ SameCells(overlayGrids(selected), target)
  /\ ret = FALSE

\* C3: a 3-grid selection in which two of the grids color the same cell is
\* rejected even when the last-writer-wins overlay of the three equals the
\* target.
C3_ConflictIsFalse ==
  ( /\ call = "validateSolution"
    /\ Len(selected) = 3
    /\ \E m, n \in 1 .. 3 : m # n /\ Conflict(selected[m], selected[n]) )
  => ret = FALSE

\* two different grids color one cell, the overlay is the target, rejected
C3_Witness ==
  /\ call = "validateSolution"
  /\ Len(selected) = 3
  /\ \E m, n \in 1 .. 3 : /\ selected[m] # selected[n]
                          /\ Conflict(selected[m], selected[n])
  /\ SameCells(overlayGrids(selected), target)
  /\ ret = FALSE

\* C4: canOverlay(a, b) is true if and only if no position (i, j) holds a
\* non-empty color in both a and b; two empty cells, or one empty and one
\* colored cell, never make it false.
C4_CanOverlayIffNoCommonCell ==
  call = "canOverlay" =>
    (ret = TRUE <=> \A c \in Cells : At(selected[1], c) = "X" \/ At(selected[2], c) = "X")

\* two colored grids with no common cell, found compatible
C4_Witness ==
  /\ call = "canOverlay"
  /\ ~AllEmpty(selected[1])
  /\ ~AllEmpty(selected[2])
  /\ ret = TRUE

\* C5: for pairwise compatible grids, overlayGrids returns the same grid for
\* every permutation of the input sequence.
C5_OverlayPermutationInvariant ==
  (call = "overlayGrids" /\ PairwiseCanOverlay(selected)) =>
    \A p \in Permutations(DOMAIN selected) : overlayGrids(Permuted(selected, p)) = ret

\* three compatible colored grids overlaid
C5_Witness ==
  /\ call = "overlayGrids"
  /\ Len(selected) = 3
  /\ PairwiseCanOverlay(selected)
  /\ \A m \in 1 .. 3 : ~AllEmpty(selected[m])

\* C6: overlayGrids of the empty sequence is the all-empty grid, and each cell
\* of the result is the color of the last grid of the sequence that is
\* non-empty at that position, or empty when no grid colors it.
C6_OverlayLastWriterWins ==
  call = "overlayGrids" =>
    /\ selected = << >> => ret = EmptyGrid
    /\ \A c \in Cells :
         At(ret, c) = IF Writers(selected, c) = {}
                      THEN "X"
                      ELSE At(selected[LastOf(Writers(selected, c))], c)

\* two grids color one cell differently and the later one shows
C6_Witness ==
  /\ call = "overlayGrids"
  /\ \E c \in Cells : \E m, n \in DOMAIN selected :
        /\ m < n
        /\ Colored(selected[m], c)
        /\ Colored(selected[n], c)
        /\ At(selected[m], c) # At(selected[n], c)
        /\ n = LastOf(Writers(selected, c))
        /\ At(ret, c) = At(selected[n], c)

\* C7: canOverlay(a, b) equals canOverlay(b, a).
C7_CanOverlaySymmetric ==
  call = "canOverlay" => ret = canOverlay(selected[2], selected[1])

\* two different grids in conflict
C7_Witness ==
  /\ call = "canOverlay"
  /\ selected[1] # selected[2]
  /\ ~AllEmpty(selected[1])
  /\ ret = FALSE

\* C8: canOverlay(a, a) is true if and only if every cell of a is empty.
C8_SelfOverlayIffEmpty ==
  (call = "canOverlay" /\ selected[1] = selected[2]) =>
    (ret = TRUE <=> AllEmpty(selected[1]))

\* a colored grid checked against itself
C8_Witness ==
  /\ call = "canOverlay"
  /\ selected[1] = selected[2]
  /\ ~AllEmpty(selected[1])
  /\ ret = FALSE

\* C23: canOverlay, overlayGrids, gridsEqual and validateSolution never modify
\* their argument grids: after any call every input grid is cell for cell
\* what it was before the call, and the grid overlayGrids returns is the one
\* it built in the call, not one of its inputs.
C23_InputsUntouched ==
  [][ call' # call =>
        /\ selected' = selected
        /\ call' = "overlayGrids" => ret' = overlayGridsMemory(selected)[0]
    ]_vars

\* two inked grids were overlaid into a third
C23_Witness ==
  /\ call = "overlayGrids"
  /\ Len(selected) = 2
  /\ selected[1] # EmptyGrid
  /\ ret # selected[1]
  /\ ret # selected[2]

-----------------------------------------------------------------------------
(* The bundled puzzle, under SpecEasy *)

SolutionGrids == {easyPuzzle.availableGrids[easyPuzzle.solution[k]] : k \in 1 .. 3}

Range(s) == {s[k] : k \in DOMAIN s}

\* C9: the grids at the authored solution indices [0, 1, 2] are pairwise
\* compatible under canOverlay, and validateSolution of those three grids
\* against the puzzle's target is true for every ordering of the three.
C9_EasySolutionValidates ==
  /\ ( /\ call = "canOverlay"
       /\ selected[1] \in SolutionGrids
       /\ selected[2] \in SolutionGrids ) => ret = TRUE
  /\ ( /\ call = "validateSolution"
       /\ Len(selected) = 3
       /\ Range(selected) = SolutionGrids ) => ret = TRUE

\* the solution submitted in an order other than the authored one
C9_Witness ==
  /\ call = "validateSolution"
  /\ selected = GridsAt(<<2, 0, 1>>)
  /\ target = easyPuzzle.target
  /\ ret = TRUE

\* C10: validateSolution([grid3, grid1, grid2], target) is false, and
\* canOverlay(grid0, grid6) is false because both grids color cell (0,0).
C10_EasyDecoysRejected ==
  /\ (call = "validateSolution" /\ selected = GridsAt(<<3, 1, 2>>)) => ret = FALSE
  /\ (call = "canOverlay" /\ selected = GridsAt(<<0, 6>>)) =>
       /\ ret = FALSE
       /\ Colored(easyPuzzle.availableGrids[0], <<0, 0>>)
       /\ Colored(easyPuzzle.availableGrids[6], <<0, 0>>)

\* grid0 and grid6 checked together
C10_Witness ==
  /\ call = "canOverlay"
  /\ selected = GridsAt(<<0, 6>>)
  /\ Colored(selected[1], <<0, 0>>)
  /\ Colored(selected[2], <<0, 0>>)
  /\ ret = FALSE

-----------------------------------------------------------------------------
(* Puzzle selection: properties of getUnplayedPuzzleByDifficulty, under     *)
(* SpecSelect                                                               *)

Selecting == call = "getUnplayedPuzzleByDifficulty"

\* the ledger the call excludes by: the guest's list, or the stored column
Ledger == IF Falsy(userId) THEN guestPlayedPuzzles ELSE recent_puzzle_ids.items

\* the ids of the ledger, as texts
LedgerTexts == {Ledger[k].text : k \in DOMAIN Ledger}

\* the ledger was there to exclude by: supplied by the guest, or read
LedgerAvailable == Falsy(userId) \/ dbRead = "ok"

PuzzlesOf(d) == {puzzles[n] : n \in {m \in DOMAIN puzzles : puzzles[m].difficulty_type = d}}

\* the puzzles of difficulty d whose id is not in the ledger
Candidates(d) == {p \in PuzzlesOf(d) : p.id.text \notin LedgerTexts}

\* a call for difficulty d that reads the ledger, if it does, and returns p
SelectReturns(d, p) ==
  /\ CallGetUnplayedPuzzleByDifficulty
  /\ difficulty' = d
  /\ dbRead' # "error"
  /\ ret' = Returned(p)

\* a call for difficulty d whose ledger read fails and that returns p
SelectReturnsOnReadError(d, p) ==
  /\ CallGetUnplayedPuzzleByDifficulty
  /\ difficulty' = d
  /\ dbRead' = "error"
  /\ ret' = Returned(p)

\* C11: whenever the exclusion set (the guest's supplied ledger, or the
\* player's successfully loaded ledger) contains the id of every puzzle of the
\* requested difficulty, the call returns null and never a puzzle.
C11_ExhaustedReturnsNull ==
  ( /\ Selecting
    /\ LedgerAvailable
    /\ ret.kind # "throw"
    /\ \A p \in PuzzlesOf(difficulty) : p.id.text \in LedgerTexts )
  => ret = ReturnedNull

\* a player whose stored ledger holds both easy ids, one of them as a number
C11_Witness ==
  /\ Selecting
  /\ userId = User1
  /\ dbRead = "ok"
  /\ difficulty = "easy"
  /\ \A p \in PuzzlesOf("easy") : p.id.text \in LedgerTexts
  /\ \E k \in DOMAIN Ledger : Ledger[k].type = "number"
  /\ ret = ReturnedNull

\* C12: with the ledger available, a returned puzzle is one of the store's
\* puzzles of the requested difficulty whose id is not in the exclusion set,
\* and every such candidate is a possible result of the call.
C12_ReturnsAnyCandidate ==
  /\ (Selecting /\ LedgerAvailable /\ ret.kind = "value")
       => ret.value \in Candidates(difficulty)
  /\ call = "none" =>
       \A d \in Difficulties : \A p \in Candidates(d) : ENABLED SelectReturns(d, p)

\* the second of two candidates is returned
C12_Witness ==
  /\ Selecting
  /\ LedgerAvailable
  /\ Ledger # << >>
  /\ Cardinality(Candidates(difficulty)) >= 2
  /\ ret.kind = "value"
  /\ ret.value # getPuzzlesByDifficulty(difficulty)[1]

\* C13: when the store holds no puzzle for the requested difficulty the
\* selection reports a configuration error, an outcome other than the
\* exhaustion outcome.
C13_NoPuzzlesIsNotExhaustion ==
  (Selecting /\ PuzzlesOf(difficulty) = {}) => ret # ReturnedNull

\* C14: for a player whose ledger read fails, on a difficulty with at least
\* one puzzle, the call returns a puzzle of the full set of that difficulty,
\* ignoring exclusion: never null, never an exception.
C14_ReadErrorReturnsAnyPuzzle ==
  /\ (Selecting /\ dbRead = "error")
       => (ret.kind = "value" /\ ret.value \in PuzzlesOf(difficulty))
  /\ (call = "none" /\ ~Falsy(userId)) =>
       \A d \in Difficulties : \A p \in PuzzlesOf(d) : ENABLED SelectReturnsOnReadError(d, p)

\* the read fails and a puzzle of the stored ledger is returned
C14_Witness ==
  /\ Selecting
  /\ dbRead = "error"
  /\ ret.kind = "value"
  /\ ret.value.id.text \in LedgerTexts

\* the indices of the bundled grids that the selection holds
IndicesOf(sel) ==
  {n \in DOMAIN easyPuzzle.availableGrids :
     \E k \in DOMAIN sel : sel[k] = easyPuzzle.availableGrids[n]}

\* C30: for the bundled easy puzzle, among all selections of three distinct
\* grids from the nine available grids, in any order, validateSolution against
\* the target is true only for the index set {0, 1, 2}.
C30_EasySolutionUnique ==
  ( /\ call = "validateSolution"
    /\ Len(selected) = 3
    /\ ret = TRUE ) => IndicesOf(selected) = {0, 1, 2}

\* a selection sharing two grids with the solution was checked and refused
C30_Witness ==
  /\ call = "validateSolution"
  /\ selected = GridsAt(<<0, 1, 7>>)
  /\ target = easyPuzzle.target
  /\ ret = FALSE

-----------------------------------------------------------------------------
(* Ledger: properties of the record operations, under SpecLedger *)

Texts(list) == [k \in DOMAIN list |-> list[k].text]

\* the list without the entries of text t
Without(list, t) == SelectSeq(list, LAMBDA v : v.text # t)

Occurrences(list, t) == Cardinality({k \in DOMAIN list : list[k].text = t})

\* this step is an addPuzzleToRecentQueue call whose update succeeded
AddStored ==
  /\ ops' = ops + 1
  /\ call' = "addPuzzleToRecentQueue"
  /\ dbWrite' = "ok"

\* this step is a handleGuestPuzzlePlayed call
GuestRecorded ==
  /\ ops' = ops + 1
  /\ call' = "handleGuestPuzzlePlayed"

\* new is old with the id of text t moved to the tail
MovedToTail(old, new, t) ==
  /\ Len(new) = Len(old)
  /\ Occurrences(new, t) = 1
  /\ new[Len(new)].text = t
  /\ Texts(Without(new, t)) = Texts(Without(old, t))

\* C15: addPuzzleToRecentQueue with an id already in the stored ledger writes
\* a ledger of the same length in which that id appears exactly once, at the
\* tail, and all other ids keep their relative order.
C15_ReAddMovesToTail ==
  [][ (AddStored /\ Occurrences(recent_puzzle_ids.items, puzzleId'.text) >= 1)
        => MovedToTail(recent_puzzle_ids.items, recent_puzzle_ids'.items, puzzleId'.text)
    ]_vars

\* the head of a full stored ledger was recorded again
C15_Witness ==
  /\ call = "addPuzzleToRecentQueue"
  /\ ops = 1
  /\ dbWrite = "ok"
  /\ puzzleId = Str("1")
  /\ recent_puzzle_ids = DbArray(Append(Run(2, QueueCap - 1), Str("1")))

\* C16: for a guest, recording an id already in the guest ledger moves that id
\* to the tail and leaves the ledger length unchanged.
C16_GuestReAddMovesToTail ==
  [][ (GuestRecorded /\ Occurrences(guestPlayedPuzzles, puzzleId'.text) >= 1)
        => MovedToTail(guestPlayedPuzzles, guestPlayedPuzzles', puzzleId'.text)
    ]_vars

\* C17: after any sequence of record operations on either path the ledger has
\* at most 100 entries; recording a new id on a ledger of exactly 100 entries
\* drops exactly the head, keeps the other 99 in order and puts the new id at
\* the tail.
C17_CapDropsOldest ==
  /\ [](Len(recent_puzzle_ids.items) <= 100 /\ Len(guestPlayedPuzzles) <= 100)
  /\ [][ ( /\ AddStored
           /\ Len(recent_puzzle_ids.items) = 100
           /\ Occurrences(recent_puzzle_ids.items, puzzleId'.text) = 0 )
         => recent_puzzle_ids'.items = Append(Tail(recent_puzzle_ids.items), String(puzzleId'))
      ]_vars
  /\ [][ ( /\ GuestRecorded
           /\ Len(guestPlayedPuzzles) = 100
           /\ Occurrences(guestPlayedPuzzles, puzzleId'.text) = 0 )
         => guestPlayedPuzzles' = Append(Tail(guestPlayedPuzzles), String(puzzleId'))
      ]_vars

\* a guest with 100 played ids was shown a 101st puzzle
C17_Witness ==
  /\ call = "handleGuestPuzzlePlayed"
  /\ ops = 1
  /\ puzzleId = Str("101")
  /\ Len(guestPlayedPuzzles) = 100
  /\ guestPlayedPuzzles = Run(2, 100)

Holds(list, pid) == \E k \in DOMAIN list : list[k].text = trim(String(pid)).text

\* both calls are over, and both read the ledger before either wrote it
RacedAndDone ==
  \A k \in DOMAIN adds : adds[k].phase = "done" /\ adds[k].readAfter = 0

\* the call whose update was the n-th
Writer(n) == adds[CHOOSE k \in DOMAIN adds : adds[k].wrote = n]

\* the earlier writer recorded an id the later writer neither read nor recorded
EarlierIsNew ==
  /\ Writer(1).puzzleId # Writer(2).puzzleId
  /\ ~Holds(Writer(1).column.items, Writer(1).puzzleId)

\* C21: when two addPuzzleToRecentQueue calls of the same player both read the
\* ledger before either writes, the stored ledger after both is exactly the
\* value the later writer wrote (the ledger it read, with its own id moved to
\* the tail and cut to the last 100), and an id that only the earlier writer
\* recorded is absent from it.
C21_LastWriterWins ==
  RacedAndDone =>
    /\ recent_puzzle_ids = DbArray(Writer(2).recentPuzzles)
    /\ recent_puzzle_ids.items =
         SliceLast(Append(Without(Writer(2).column.items, Writer(2).puzzleId.text),
                          Writer(2).puzzleId), QueueCap)
    /\ EarlierIsNew => ~Holds(recent_puzzle_ids.items, Writer(1).puzzleId)

\* both calls read the ledger "1", "2"; "101" was written first, then "102"
C21_Witness ==
  /\ RacedAndDone
  /\ EarlierIsNew
  /\ Writer(1).puzzleId = Str("101")
  /\ recent_puzzle_ids = DbArray(<<Str("1"), Str("2"), Str("102")>>)

\* C22: ledger ids are normalized to strings before every comparison: a
\* stored entry that is a number excludes, in a selection that read the ledger,
\* the puzzle whose id is the string of that number, and recording an id whose
\* number is already stored yields a ledger of strings with a single entry
\* for it.
C22_IdsComparedAsStrings ==
  /\ []( (Selecting /\ dbRead = "ok" /\ ret.kind = "value")
            => \A k \in DOMAIN Ledger :
                 Ledger[k].type = "number" => Ledger[k].text # ret.value.id.text )
  /\ [][ (AddStored /\ Includes(recent_puzzle_ids.items, Num(puzzleId'.text)))
          => /\ Occurrences(recent_puzzle_ids'.items, puzzleId'.text) = 1
             /\ \A k \in DOMAIN recent_puzzle_ids'.items :
                  recent_puzzle_ids'.items[k].type = "string"
      ]_vars

\* the stored ledger holds the number 1 and the selection returns puzzle "2"
C22_Witness ==
  /\ Selecting
  /\ dbRead = "ok"
  /\ difficulty = "easy"
  /\ Ledger = <<Num("1")>>
  /\ ret.kind = "value"
  /\ ret.value.id = Str("2")

NoDuplicate(list) == \A k, l \in DOMAIN list : list[k].text = list[l].text => k = l

\* C26: after any sequence of record operations (addPuzzleToRecentQueue by a
\* player, handleGuestPuzzlePlayed by a guest) on a ledger that started empty
\* or without duplicates, the ledger contains no duplicate id, and the id of
\* the most recent record operation that completed is in the ledger.
C26_NoDuplicateAndLastRecorded ==
  /\ NoDuplicate(recent_puzzle_ids.items)
  /\ NoDuplicate(guestPlayedPuzzles)
  /\ (call = "addPuzzleToRecentQueue" /\ dbWrite = "ok")
       => Holds(recent_puzzle_ids.items, puzzleId)
  /\ call = "handleGuestPuzzlePlayed" => Holds(guestPlayedPuzzles, puzzleId)

\* a guest's ledger that started empty, after puzzles 2, 50 and 2 again
C26_Witness ==
  /\ call = "handleGuestPuzzlePlayed"
  /\ ops = 3
  /\ puzzleId = Str("2")
  /\ guestPlayedPuzzles = <<Str("2"), Str("50")>>

-----------------------------------------------------------------------------
(* Properties of the play flow *)

\* C18: a presented puzzle is recorded exactly once: while the Game view of
\* a puzzle is mounted, the trackPuzzle effect has run once for it, whatever
\* else has happened since the view mounted
C18_RecordedOncePerPresentation == GameMounted => game.trackCalls = 1

\* a guest session: from Continue as Guest until isGuest is cleared
GuestSessionStarts == ~home.isGuest /\ home'.isGuest

GuestSessionGoesOn == home.isGuest /\ home'.isGuest

\* C20: the guest ledger lives exactly as long as the guest session: no step
\* inside a session removes an id from it, and every step that starts a
\* session (Continue as Guest) starts it with an empty ledger
C20_GuestLedgerLivesWithSession ==
  [][/\ GuestSessionGoesOn =>
          \A k \in DOMAIN guestPlayedPuzzles : Includes(guestPlayedPuzzles', guestPlayedPuzzles[k])
     /\ GuestSessionStarts => guestPlayedPuzzles' = << >>]_vars

-----------------------------------------------------------------------------
(* Properties of serving *)

\* ids of the puzzles of the store
StoreTexts == {puzzles[n].id.text : n \in DOMAIN puzzles}

\* the whole store has been served and the request just made returned null
ServedOut ==
  /\ call = "getUnplayedPuzzleByDifficulty"
  /\ history.served = StoreTexts
  /\ ret = ReturnedNull

-----------------------------------------------------------------------------
(* Idle: the automatic sign-out, under SpecIdle *)

SignedIn == home.isAuthenticated /\ ~Falsy(userId)

\* C24: an authenticated user who produces no activity event for the 5-minute
\* timeout is signed out, so a signed-in user is never idle for longer; and
\* only the activity events restart the inactivity timer: the time left on it
\* grows in no other step, the checkUser interval and the renders of Home
\* included.
C24_IdleUserSignedOut ==
  /\ [](SignedIn => idle <= TimeoutMinutes)
  /\ [][ inactivity'.timeoutRef > inactivity.timeoutRef
          => (inactivity.throttleTimeout /\ ~inactivity'.throttleTimeout) ]_vars

-----------------------------------------------------------------------------
(* The Game view, under SpecGuest *)

\* this step is a handleSubmit call: it sets timeouts
SubmitStarts == GameMounted /\ Len(game'.timers) > Len(game.timers)

\* C28: after any sequence of grid clicks, submits and resets, selectedIndices
\* holds at most 3 pairwise distinct indices of availableGrids, and a
\* submission starts only when exactly 3 are selected and isAnimating is
\* false, so validateSolution is never called with another selection count.
C28_SelectionBounded ==
  /\ []( /\ Len(game.selectedIndices) <= 3
         /\ \A k, l \in DOMAIN game.selectedIndices :
              game.selectedIndices[k] = game.selectedIndices[l] => k = l
         /\ \A k \in DOMAIN game.selectedIndices : game.selectedIndices[k] \in GridIndices )
  /\ [][ SubmitStarts => (Len(game.selectedIndices) = 3 /\ ~game.isAnimating) ]_vars

\* three grids that are not the solution were submitted
C28_Witness ==
  /\ GameMounted
  /\ Len(game.selectedIndices) = 3
  /\ game.isAnimating
  /\ game.showIncorrectShake

\* the three selected grids are the solution
SelectionValidates ==
  validateSolution(selectedGrids(diff.currentPuzzle, game.selectedIndices),
                   gamePuzzle(diff.currentPuzzle).target)

\* this step is the end of the shake of an incorrect submission
ShakeEnds == game.showIncorrectShake /\ ~game'.showIncorrectShake /\ GameMounted'

\* C29: the success modal is visible only while the currently selected three
\* grids satisfy validateSolution against the target; after an incorrect
\* submission the modal is not shown, and when its shake ends the view has an
\* empty selection and isAnimating false.
C29_ModalOnlyForSolution ==
  /\ [](SuccessModal => SelectionValidates)
  /\ [](GameMounted /\ game.showIncorrectShake => ~SuccessModal)
  /\ [][ShakeEnds => (game'.selectedIndices = << >> /\ ~game'.isAnimating /\ ~SuccessModal')]_vars

-----------------------------------------------------------------------------
(* NEXT PUZZLE, under SpecNext *)

\* a NEXT PUZZLE request is in flight
NextRequested == pendingSelect.active /\ pendingSelect.fromPuzzle # Null

\* this step hands the result of a NEXT PUZZLE request to the view
NextDelivered == NextRequested /\ ~pendingSelect'.active

\* this step is the store serving a NEXT PUZZLE request with a puzzle
NextServed ==
  /\ NextRequested
  /\ pendingSelect.result.kind = "none"
  /\ pendingSelect'.result.kind = "value"

\* C25: the puzzle returned for a NEXT PUZZLE request is never the puzzle
\* presented to that player when the request was made, guest or signed in,
\* however the record call issued at the mount interleaves with the ledger
\* read of the selection.
C25_NextIsAnotherPuzzle ==
  [][ (NextDelivered /\ GameMounted') => diff'.currentPuzzle.id # pendingSelect.fromPuzzle ]_vars

\* C25, amended: the puzzle returned for a NEXT PUZZLE request is never the
\* one presented to a guest, and never the one presented to a signed-in player
\* when the stored ledger holds its id at the ledger read of the selection;
\* the puzzle the view mounts is the one the selection returned.
C25_NextIsAnotherWhenRecorded ==
  /\ [][ ( /\ NextServed
           /\ Falsy(pendingSelect.userId)
                \/ Holds(recent_puzzle_ids.items, pendingSelect.fromPuzzle) )
         => pendingSelect'.result.value.id # pendingSelect.fromPuzzle ]_vars
  /\ [][ (NextDelivered /\ GameMounted') => diff'.currentPuzzle = pendingSelect.result.value ]_vars

\* the record call of puzzle "1" has stored its ledger and the next selection
\* of the signed-in player is served puzzle "2"
C25_Witness ==
  /\ NextRequested
  /\ ~Falsy(pendingSelect.userId)
  /\ pendingSelect.fromPuzzle = Str("1")
  /\ adds = << >>
  /\ recent_puzzle_ids = DbArray(<<Str("1")>>)
  /\ pendingSelect.result = Returned(puzzles[2])

-----------------------------------------------------------------------------
(* The record call of the mount effect, under SpecTrack *)

\* this step is the select of an addPuzzleToRecentQueue call failing
ReadFails ==
  \E k \in DOMAIN adds : adds[k].phase = "select" /\ Len(adds') < Len(adds)

\* C27: if the ledger read inside addPuzzleToRecentQueue fails, the call ends
\* without issuing a write: no call reaches its update after a failed select,
\* the stored ledger changes only by the update of a call whose select
\* succeeded, and it is unchanged by the failure; Game catches the error and
\* the presented puzzle stays mounted in the state it had, open to clicks.
C27_ReadFailureWritesNothing ==
  /\ [](\A k \in DOMAIN adds : adds[k].phase = "update" => ~adds[k].fetchError)
  /\ [][ recent_puzzle_ids' # recent_puzzle_ids
          => \E k \in DOMAIN adds :
               /\ adds[k].phase = "update"
               /\ ~adds[k].fetchError
               /\ recent_puzzle_ids' = DbArray(adds[k].recentPuzzles) ]_vars
  /\ [][ ReadFails
          => /\ recent_puzzle_ids' = recent_puzzle_ids
             /\ diff' = diff
             /\ game' = IF GameMounted THEN [game EXCEPT !.caught = "fetchError"] ELSE game ]_vars
  /\ []( (GameMounted /\ game.caught = "fetchError" /\ ~game.isAnimating)
           => ENABLED handleGridClick )

\* the select failed while puzzle "1" was shown; the player went on and solved it
C27_Witness ==
  /\ SuccessModal
  /\ diff.currentPuzzle.id = Str("1")
  /\ game.caught = "fetchError"
  /\ adds = << >>
  /\ recent_puzzle_ids = DbNull

====
